---- MODULE Spec2Model ----
(***************************************************************************)
(* Seller onboarding of Findora: the registration endpoint                 *)
(* (POST /api/seller/register), the profile query endpoint                 *)
(* (GET /api/seller/profile), the seller profile store and the identity    *)
(* roles they share.  Requests are handled concurrently; every await of a  *)
(* handler is one atomic step.                                             *)
(***************************************************************************)
EXTENDS Integers, Sequences, FiniteSets, TLC

VARIABLES
  profiles,   \* the sellerProfile table: a set of rows
  role,       \* the user table: role of each identity
  nextId,     \* the store's row id generator
  clock,      \* the time new Date() and the store's now() read: it advances with each row
  reqs,       \* the requests received so far, in order of arrival
  menu,       \* the bodies clients may send
  quota,      \* the number of requests clients may still send
  form,       \* the registration page (SellerRegisterPage)
  docs,       \* the documents page (SellerDocumentsPage)
  desk,       \* the files the user of the documents page may pick
  dash        \* the seller dashboard (SellerDashboard)

\* the pages of the browser
pages == <<form, docs, desk, dash>>

vars ==
  <<profiles, role, nextId, clock, reqs, menu, quota, form, docs, desk, dash>>

(***************************************************************************)
(* Bounds of the model.                                                    *)
(***************************************************************************)
MaxRequests == 2
MaxSchemaRequests == 2

(***************************************************************************)
(* JavaScript values.  A string is the tuple of its characters.            *)
(***************************************************************************)
Undef == [t |-> "undefined"]
Null == [t |-> "null"]
Str(s) == [t |-> "string", s |-> s]
Num(n) == [t |-> "number", n |-> n]
NaN == [t |-> "number", nan |-> TRUE]
Bool(b) == [t |-> "boolean", b |-> b]
Arr(a) == [t |-> "array", a |-> a]

IsStr(v) == v.t = "string"
IsNum(v) == v.t = "number" /\ "n" \in DOMAIN v

\* JavaScript truthiness, as used by the || operator
Falsy(v) ==
  \/ v.t \in {"undefined", "null"}
  \/ v.t = "string" /\ v.s = <<>>
  \/ v.t = "number" /\ (v = NaN \/ v = Num(0))
  \/ v.t = "boolean" /\ ~v.b

\* v || null
OrNull(v) == IF Falsy(v) THEN Null ELSE v

Digits == {"0", "1", "2", "3", "4", "5", "6", "7", "8", "9"}
Lower == {"a", "b", "c", "d", "e", "f", "g", "h", "i", "j", "k", "l", "m",
          "n", "o", "p", "q", "r", "s", "t", "u", "v", "w", "x", "y", "z"}
Upper == {"A", "B", "C", "D", "E", "F", "G", "H", "I", "J", "K", "L", "M",
          "N", "O", "P", "Q", "R", "S", "T", "U", "V", "W", "X", "Y", "Z"}
Letters == Lower \cup Upper
Spaces == {" ", "\t", "\n"}

AllIn(s, set) == \A i \in 1..Len(s) : s[i] \in set

\* the first index of character c in s, or 0
IndexOf(s, c) ==
  IF \E i \in 1..Len(s) : s[i] = c
  THEN CHOOSE i \in 1..Len(s) : s[i] = c /\ \A j \in 1..(i - 1) : s[j] # c
  ELSE 0

\* the last index of character c in s, or 0
LastIndexOf(s, c) ==
  IF \E i \in 1..Len(s) : s[i] = c
  THEN CHOOSE i \in 1..Len(s) : s[i] = c /\ \A j \in (i + 1)..Len(s) : s[j] # c
  ELSE 0

(***************************************************************************)
(* The registration schema (zod).                                          *)
(***************************************************************************)
BusinessTypes ==
  {<<"I", "N", "D", "I", "V", "I", "D", "U", "A", "L">>, <<"S", "O", "L", "E", "_", "P", "R", "O", "P", "R", "I", "E", "T", "O", "R", "S", "H", "I", "P">>, <<"P", "A", "R", "T", "N", "E", "R", "S", "H", "I", "P">>, <<"L", "L", "C">>,
   <<"C", "O", "R", "P", "O", "R", "A", "T", "I", "O", "N">>, <<"N", "O", "N", "P", "R", "O", "F", "I", "T">>}

\* keys declared as z.string().min(n)
MinLen ==
  [businessName |-> 2, contactPersonName |-> 2, addressLine1 |-> 5,
   city |-> 2, state |-> 2, country |-> 2, postalCode |-> 3, taxId |-> 5,
   businessLicense |-> 3, bankAccountHolder |-> 2, bankName |-> 2,
   accountNumber |-> 8, ifscSwiftCode |-> 8]

MinStringKeys == DOMAIN MinLen
PlainOptionalKeys == {"addressLine2", "gstVatNumber", "bankBranchAddress"}
UrlKeys == {"website", "facebookUrl", "instagramUrl", "linkedinUrl", "twitterUrl"}
DefaultKeys == {"managesOwnShipping", "needsShippingHelp"}
SchemaKeys ==
  MinStringKeys \cup PlainOptionalKeys \cup UrlKeys \cup DefaultKeys \cup
  {"businessType", "description", "phone", "businessEmail", "yearsInBusiness",
   "productCategories", "termsAccepted"}

DescriptionMin == 10
DescriptionMax == 500
PhoneMin == 10
YearsMin == 0
YearsMax == 100

\* /^[+]?[0-9\s\-\(\)]{10,}$/
PhoneChars == Digits \cup Spaces \cup {"-", "(", ")"}
PhoneRegex(s) ==
  LET rest == IF Len(s) > 0 /\ s[1] = "+" THEN Tail(s) ELSE s
  IN  Len(rest) >= PhoneMin /\ AllIn(rest, PhoneChars)

\* z.string().url(): the string parses as a URL (a scheme, a colon, and for
\* the schemes of the web a host)
SchemeChars == Letters \cup Digits \cup {"+", "-", "."}
WebSchemes == {<<"h", "t", "t", "p">>, <<"h", "t", "t", "p", "s">>}
IsUrl(s) ==
  LET c == IndexOf(s, ":")
      scheme == SubSeq(s, 1, c - 1)
      rest == SubSeq(s, c + 1, Len(s))
      host == IF Len(rest) >= 2 /\ rest[1] = "/" /\ rest[2] = "/"
              THEN SubSeq(rest, 3, Len(rest)) ELSE rest
  IN  /\ c > 1
      /\ s[1] \in Letters
      /\ AllIn(scheme, SchemeChars)
      /\ scheme \in WebSchemes => (Len(host) > 0 /\ host[1] \notin {"/", ":"})

\* z.string().email(): local@domain.tld
EmailChars == Letters \cup Digits \cup {"_", "+", "-", "."}
IsEmail(s) ==
  LET a == IndexOf(s, "@")
      local == SubSeq(s, 1, a - 1)
      domain == SubSeq(s, a + 1, Len(s))
      d == LastIndexOf(domain, ".")
      tld == SubSeq(domain, d + 1, Len(domain))
  IN  /\ a > 1
      /\ AllIn(local, EmailChars)
      /\ local[1] # "." /\ local[Len(local)] # "."
      /\ d > 1
      /\ AllIn(domain, Letters \cup Digits \cup {"-", "."})
      /\ Len(tld) >= 2 /\ AllIn(tld, Letters)

\* Number(v) of z.coerce.number()
DigitValue(c) == CHOOSE n \in 0..9 : ToString(n) = c
RECURSIVE DecimalValue(_)
DecimalValue(s) ==
  IF s = <<>> THEN 0
  ELSE 10 * DecimalValue(SubSeq(s, 1, Len(s) - 1)) + DigitValue(s[Len(s)])
ToNumber(v) ==
  CASE v.t = "number" -> v
    [] v.t = "null" -> Num(0)
    [] v.t = "boolean" -> IF v.b THEN Num(1) ELSE Num(0)
    [] v.t = "string" ->
         IF AllIn(v.s, Digits) THEN Num(DecimalValue(v.s)) ELSE NaN
    [] OTHER -> NaN

\* whether the value of key k passes its field schema
FieldOk(k, v) ==
  CASE k \in MinStringKeys -> IsStr(v) /\ Len(v.s) >= MinLen[k]
    [] k \in PlainOptionalKeys -> v = Undef \/ IsStr(v)
    [] k \in UrlKeys -> v = Undef \/ (IsStr(v) /\ (IsUrl(v.s) \/ v.s = <<>>))
    [] k \in DefaultKeys -> v = Undef \/ v.t = "boolean"
    [] k = "businessType" -> IsStr(v) /\ v.s \in BusinessTypes
    [] k = "description" ->
         v = Undef \/
         (IsStr(v) /\ Len(v.s) >= DescriptionMin /\ Len(v.s) <= DescriptionMax)
    [] k = "phone" -> IsStr(v) /\ PhoneRegex(v.s)
    [] k = "businessEmail" ->
         v = Undef \/ (IsStr(v) /\ (IsEmail(v.s) \/ v.s = <<>>))
    [] k = "yearsInBusiness" ->
         v = Undef \/
         (IsNum(ToNumber(v)) /\ ToNumber(v).n >= YearsMin /\ ToNumber(v).n <= YearsMax)
    [] k = "productCategories" ->
         /\ v.t = "array"
         /\ \A i \in 1..Len(v.a) : IsStr(v.a[i])
         /\ Len(v.a) >= 1
    [] k = "termsAccepted" -> v.t = "boolean" /\ v.b = TRUE

\* the parsed value of key k: coerced, defaulted
FieldOut(k, v) ==
  CASE k = "managesOwnShipping" -> IF v = Undef THEN Bool(TRUE) ELSE v
    [] k = "needsShippingHelp" -> IF v = Undef THEN Bool(FALSE) ELSE v
    [] k = "yearsInBusiness" -> IF v = Undef THEN Undef ELSE ToNumber(v)
    [] OTHER -> v

\* a schema whose termsAccepted is z.boolean() without the refinement
SafeParseLax(body) ==
  IF body.t # "object"
  THEN [success |-> FALSE, data |-> <<>>,
        errors |-> [formErrors |-> {"Expected object"}, fieldErrors |-> {}]]
  ELSE LET bad == {k \in SchemaKeys :
                     /\ ~FieldOk(k, body.o[k])
                     /\ ~(k = "termsAccepted" /\ body.o[k].t = "boolean")}
       IN  [success |-> bad = {},
            data |-> [k \in SchemaKeys |-> FieldOut(k, body.o[k])],
            errors |-> [formErrors |-> {}, fieldErrors |-> bad]]

\* sellerRegistrationSchema.safeParse(body); error.flatten() for the errors
SafeParse(body) ==
  IF body.t # "object"
  THEN [success |-> FALSE, data |-> <<>>,
        errors |-> [formErrors |-> {"Expected object"}, fieldErrors |-> {}]]
  ELSE LET bad == {k \in SchemaKeys : ~FieldOk(k, body.o[k])}
       IN  [success |-> bad = {},
            data |-> [k \in SchemaKeys |-> FieldOut(k, body.o[k])],
            errors |-> [formErrors |-> {}, fieldErrors |-> bad]]

(***************************************************************************)
(* Identities and the store.                                               *)
(***************************************************************************)
Users == {"u1", "u2"}
NoSession == "none"
Sessions == Users \cup {NoSession}

\* the role an identity has before it registers as a seller
InitialRole == "BUYER"

Date(n) == [t |-> "date", ms |-> n]

\* the role the registration endpoint writes
SellerRole == "SELLER"

\* the rows of an identity
RowsOf(table, userId) == {row \in table : row.userId = userId}

\* a lookup by a key no row has
ExistingSellerMiss(table, userId) == Null

\* POST: db.sellerProfile.findUnique({ where: { userId } }): the row or null
ExistingSeller(table, userId) ==
  IF RowsOf(table, userId) # {}
  THEN CHOOSE row \in table : row.userId = userId
  ELSE Null

\* a store without the constraint
UniqueViolationOff(table, userId) == FALSE

\* the unique constraint on sellerProfile.userId
UniqueViolation(table, userId) == \E row \in table : row.userId = userId

\* the columns the store fills in by itself
StoreDefaults(id, now) ==
  [id |-> Str(<<"s", "p", ToString(id)>>),
   createdAt |-> Date(now), updatedAt |-> Date(now),
   averageRating |-> Num(0), totalRatings |-> Num(0), totalSales |-> Num(0)]

\* a profile that starts out verified
InitialStatusVerified == Str(<<"V", "E", "R", "I", "F", "I", "E", "D">>)

\* the verificationStatus of a new profile
InitialStatus == Str(<<"P", "E", "N", "D", "I", "N", "G">>)

\* a create call that leaves the acceptance timestamp out
TermsAcceptedAtNull(data, now) == Null

\* data.termsAccepted ? new Date() : null
TermsAcceptedAt(data, now) == IF data.termsAccepted.b THEN Date(now) ELSE Null

\* the data of db.sellerProfile.create
ProfileData(userId, data, now) ==
  [userId |-> userId,
   businessName |-> data.businessName,
   businessType |-> data.businessType,
   description |-> OrNull(data.description),
   website |-> OrNull(data.website),
   phone |-> data.phone,
   businessEmail |-> OrNull(data.businessEmail),
   contactPersonName |-> data.contactPersonName,
   addressLine1 |-> data.addressLine1,
   addressLine2 |-> OrNull(data.addressLine2),
   city |-> data.city,
   state |-> data.state,
   country |-> data.country,
   postalCode |-> data.postalCode,
   taxId |-> data.taxId,
   gstVatNumber |-> OrNull(data.gstVatNumber),
   businessLicense |-> data.businessLicense,
   yearsInBusiness |-> OrNull(data.yearsInBusiness),
   facebookUrl |-> OrNull(data.facebookUrl),
   instagramUrl |-> OrNull(data.instagramUrl),
   linkedinUrl |-> OrNull(data.linkedinUrl),
   twitterUrl |-> OrNull(data.twitterUrl),
   bankAccountHolder |-> data.bankAccountHolder,
   bankName |-> data.bankName,
   accountNumber |-> data.accountNumber,
   ifscSwiftCode |-> data.ifscSwiftCode,
   bankBranchAddress |-> OrNull(data.bankBranchAddress),
   productCategories |-> data.productCategories,
   managesOwnShipping |-> data.managesOwnShipping,
   needsShippingHelp |-> data.needsShippingHelp,
   termsAccepted |-> data.termsAccepted,
   termsAcceptedAt |-> TermsAcceptedAt(data, now),
   verificationStatus |-> InitialStatus]

\* the row the store inserts for the data
NewRow(id, now, data) ==
  LET d == StoreDefaults(id, now)
  IN  [k \in DOMAIN d \cup DOMAIN data |->
         IF k \in DOMAIN data THEN data[k] ELSE d[k]]

\* a select clause: the projection of a row
Select(row, keys) == [k \in keys |-> row[k]]

\* a select that also returns tax and bank columns
CreateSelectAll ==
  {"id", "businessName", "businessType", "verificationStatus", "createdAt",
   "taxId", "accountNumber"}

\* select of db.sellerProfile.create in POST
CreateSelect ==
  {"id", "businessName", "businessType", "verificationStatus", "createdAt"}

\* select of db.sellerProfile.findUnique in GET
ProfileSelect ==
  {"id", "businessName", "businessType", "description", "website", "phone",
   "verificationStatus", "averageRating", "totalRatings", "totalSales",
   "createdAt", "updatedAt"}

\* a lookup by a key no row has
SellerProfileOfMiss(table, userId) == Null

\* GET: db.sellerProfile.findUnique({ where: { userId }, select }): the
\* projection of the row, or null
SellerProfileOf(table, userId) ==
  IF RowsOf(table, userId) # {}
  THEN Select(CHOOSE row \in table : row.userId = userId, ProfileSelect)
  ELSE Null

(***************************************************************************)
(* Responses.                                                              *)
(***************************************************************************)
NoResponse == [status |-> 0, body |-> <<>>]
Json(body, status) == [status |-> status, body |-> body]

Unauthorized == Json([message |-> "Authentication required"], 401)
InvalidInput(errors) == Json([message |-> "Invalid input", errors |-> errors], 400)
Conflict == Json([message |-> "You already have a seller profile"], 409)
Created(seller) ==
  Json([message |-> "Seller profile created successfully", seller |-> seller], 201)
\* a handler that answers a missing profile with 200
NotFoundAsOk == Json([seller |-> Null], 200)
NotFound == Json([message |-> "Seller profile not found"], 404)
Ok(seller) == Json([seller |-> seller], 200)
\* the catch block of both handlers
InternalError == Json([message |-> "Internal server error"], 500)

(***************************************************************************)
(* Request bodies.                                                         *)
(***************************************************************************)
Malformed == [t |-> "malformed"]
Obj(o) == [t |-> "object", o |-> o]
With(o, k, v) == [o EXCEPT ![k] = v]

Base ==
  [businessName |-> Str(<<"A", "c", "m", "e">>),
   businessType |-> Str(<<"L", "L", "C">>),
   description |-> Undef,
   website |-> Undef,
   phone |-> Str(<<"+", "1", " ", "5", "5", "5", "-", "1", "2", "3", "4">>),
   businessEmail |-> Undef,
   contactPersonName |-> Str(<<"A", "l">>),
   addressLine1 |-> Str(<<"1", " ", "E", "l", "m">>),
   addressLine2 |-> Undef,
   city |-> Str(<<"U", "r">>),
   state |-> Str(<<"N", "Y">>),
   country |-> Str(<<"U", "S">>),
   postalCode |-> Str(<<"1", "2", "3">>),
   taxId |-> Str(<<"T", "1", "2", "3", "4">>),
   gstVatNumber |-> Undef,
   businessLicense |-> Str(<<"L", "1", "2">>),
   yearsInBusiness |-> Undef,
   facebookUrl |-> Undef,
   instagramUrl |-> Undef,
   linkedinUrl |-> Undef,
   twitterUrl |-> Undef,
   bankAccountHolder |-> Str(<<"A", "l">>),
   bankName |-> Str(<<"B", "K">>),
   accountNumber |-> Str(<<"1", "2", "3", "4", "5", "6", "7", "8">>),
   ifscSwiftCode |-> Str(<<"A", "B", "C", "D", "1", "2", "3", "4">>),
   bankBranchAddress |-> Undef,
   productCategories |-> Arr(<<Str(<<"O", "t", "h", "e", "r">>)>>),
   managesOwnShipping |-> Undef,
   needsShippingHelp |-> Undef,
   termsAccepted |-> Bool(TRUE)]

\* the tax, licence and bank keys of a payload
PrivateKeys ==
  {"taxId", "gstVatNumber", "businessLicense", "bankAccountHolder", "bankName",
   "accountNumber", "ifscSwiftCode", "bankBranchAddress"}

\* Base with other tax, licence and bank details
OtherBank ==
  [k \in SchemaKeys |->
     CASE k = "taxId" -> Str(<<"T", "9", "9", "9", "9">>)
       [] k = "gstVatNumber" -> Str(<<"G", "1">>)
       [] k = "businessLicense" -> Str(<<"L", "9", "9">>)
       [] k = "bankAccountHolder" -> Str(<<"B", "o">>)
       [] k = "bankName" -> Str(<<"Z", "Z">>)
       [] k = "accountNumber" -> Str(<<"8", "7", "6", "5", "4", "3", "2", "1">>)
       [] k = "ifscSwiftCode" -> Str(<<"W", "X", "Y", "Z", "9", "8", "7", "6">>)
       [] k = "bankBranchAddress" -> Str(<<"M", "a", "i", "n">>)
       [] OTHER -> Base[k]]

\* Base for another business
OtherBusiness ==
  With(With(Base, "businessName", Str(<<"B", "o", "l", "t">>)), "businessType", Str(<<"I", "N", "D", "I", "V", "I", "D", "U", "A", "L">>))

\* the category catalog of the registration page
productCategories ==
  <<Str(<<"E", "l", "e", "c", "t", "r", "o", "n", "i", "c", "s">>),
    Str(<<"F", "a", "s", "h", "i", "o", "n", " ", "&", " ", "C", "l", "o", "t", "h", "i", "n", "g">>),
    Str(<<"H", "o", "m", "e", " ", "&", " ", "G", "a", "r", "d", "e", "n">>),
    Str(<<"H", "e", "a", "l", "t", "h", " ", "&", " ", "B", "e", "a", "u", "t", "y">>),
    Str(<<"S", "p", "o", "r", "t", "s", " ", "&", " ", "O", "u", "t", "d", "o", "o", "r", "s">>),
    Str(<<"B", "o", "o", "k", "s", " ", "&", " ", "M", "e", "d", "i", "a">>),
    Str(<<"T", "o", "y", "s", " ", "&", " ", "G", "a", "m", "e", "s">>),
    Str(<<"A", "u", "t", "o", "m", "o", "t", "i", "v", "e">>),
    Str(<<"F", "o", "o", "d", " ", "&", " ", "B", "e", "v", "e", "r", "a", "g", "e", "s">>),
    Str(<<"A", "r", "t", " ", "&", " ", "C", "r", "a", "f", "t", "s">>),
    Str(<<"J", "e", "w", "e", "l", "r", "y", " ", "&", " ", "A", "c", "c", "e", "s", "s", "o", "r", "i", "e", "s">>),
    Str(<<"P", "e", "t", " ", "S", "u", "p", "p", "l", "i", "e", "s">>),
    Str(<<"O", "f", "f", "i", "c", "e", " ", "&", " ", "B", "u", "s", "i", "n", "e", "s", "s">>),
    Str(<<"B", "a", "b", "y", " ", "&", " ", "K", "i", "d", "s">>),
    Str(<<"M", "u", "s", "i", "c", " ", "&", " ", "I", "n", "s", "t", "r", "u", "m", "e", "n", "t", "s">>),
    Str(<<"O", "t", "h", "e", "r">>)>>

\* the keys a payload must carry
RequiredKeys ==
  MinStringKeys \cup {"businessType", "phone", "productCategories", "termsAccepted"}

\* the value of a string key cut to one character less than its minimum
TooShort(k) == Str(SubSeq(Base[k].s, 1, MinLen[k] - 1))

CoreMenu ==
  {Obj(Base), Obj(OtherBank), Obj(With(Base, "termsAccepted", Bool(FALSE))),
   Malformed}

SchemaMenu ==
  {Obj(Base), Obj(OtherBusiness), Malformed, Null}
  \cup {Obj(With(Base, k, Undef)) : k \in RequiredKeys}
  \cup {Obj(With(Base, k, TooShort(k))) : k \in {"businessName", "taxId"}}
  \cup {Obj(With(Base, "productCategories", Arr(<<>>))),
        Obj(With(Base, "termsAccepted", Bool(FALSE))),
        Obj(With(Base, "businessType", Str(<<"G", "U", "I", "L", "D">>))),
        Obj(With(Base, "phone", Str(<<"5", "5", "5", "-", "1", "2", "3", "4">>))),
        Obj(With(Base, "productCategories", Arr(<<Str(<<"B", "o", "g", "u", "s">>)>>))),
        Obj(With(Base, "productCategories",
                 Arr(<<productCategories[1], productCategories[1]>>)))}

(***************************************************************************)
(* Requests.  A request record holds the handler's position (pc), its      *)
(* local sellerProfile (seller), the store calls it has made (calls), the  *)
(* call that threw (threw) and its response (resp).                        *)
(***************************************************************************)
NewRequest(kind, sid, body) ==
  [kind |-> kind, sid |-> sid, body |-> body, pc |-> "session",
   seller |-> Null, calls |-> <<>>, threw |-> "", resp |-> NoResponse]

\* return NextResponse.json(...)
Respond(r, resp) == [r EXCEPT !.pc = "done", !.resp = resp]

\* a catch block that reports what was thrown
CatchLeaky(r, what) ==
  [Respond(r, Json([message |-> what], 500)) EXCEPT !.threw = what]

\* the catch block: whatever was thrown, the response is InternalError
Catch(r, what) == [Respond(r, InternalError) EXCEPT !.threw = what]

Called(r, op) == [r EXCEPT !.calls = Append(@, op)]

\* a handler that skips the session check
UnauthenticatedNever(sid) == FALSE

\* !session?.user?.id
Unauthenticated(sid) == sid = NoSession

At(i, kind, pc) == reqs[i].kind = kind /\ reqs[i].pc = pc

\* a client sends a request
Arrive ==
  /\ quota > 0
  /\ \E kind \in {"POST", "GET"}, sid \in Sessions :
       \E body \in IF kind = "POST" THEN menu ELSE {Undef} :
         reqs' = Append(reqs, NewRequest(kind, sid, body))
  /\ quota' = quota - 1
  /\ UNCHANGED <<profiles, role, nextId, clock, menu>>
  /\ UNCHANGED pages

\* a handler that validates the payload before it looks at the session
PostSessionValidatesFirst(i) ==
  /\ At(i, "POST", "session")
  /\ reqs' = [reqs EXCEPT ![i] =
       IF @.body # Malformed /\ ~SafeParse(@.body).success
         THEN Respond(@, InvalidInput(SafeParse(@.body).errors))
       ELSE IF Unauthenticated(@.sid) THEN Respond(@, Unauthorized)
       ELSE [@ EXCEPT !.pc = "json"]]
  /\ UNCHANGED <<profiles, role, nextId, clock, menu, quota>>
  /\ UNCHANGED pages

\* POST: getServerSession resolves
PostSession(i) ==
  /\ At(i, "POST", "session")
  /\ reqs' = [reqs EXCEPT ![i] =
       IF Unauthenticated(@.sid) THEN Respond(@, Unauthorized)
       ELSE [@ EXCEPT !.pc = "json"]]
  /\ UNCHANGED <<profiles, role, nextId, clock, menu, quota>>
  /\ UNCHANGED pages

\* POST: request.json() resolves or throws, then safeParse
PostJson(i) ==
  /\ At(i, "POST", "json")
  /\ reqs' = [reqs EXCEPT ![i] =
       IF @.body = Malformed THEN Catch(@, "json")
       ELSE LET validatedFields == SafeParse(@.body)
            IN  IF ~validatedFields.success
                THEN Respond(@, InvalidInput(validatedFields.errors))
                ELSE [@ EXCEPT !.pc = "findUnique"]]
  /\ UNCHANGED <<profiles, role, nextId, clock, menu, quota>>
  /\ UNCHANGED pages

\* an existing-profile check that goes on to the role update when it finds
\* the profile
PostFindUniqueRepair(i) ==
  /\ At(i, "POST", "findUnique")
  /\ \E ok \in BOOLEAN :
       reqs' = [reqs EXCEPT ![i] =
         LET r == Called(@, "findUnique")
             existingSeller == ExistingSeller(profiles, r.sid)
         IN  IF ~ok THEN Catch(r, "findUnique")
             ELSE IF existingSeller # Null
               THEN [r EXCEPT !.pc = "update", !.seller = existingSeller]
             ELSE [r EXCEPT !.pc = "create"]]
  /\ UNCHANGED <<profiles, role, nextId, clock, menu, quota>>
  /\ UNCHANGED pages

\* POST: db.sellerProfile.findUnique resolves or throws
PostFindUnique(i) ==
  /\ At(i, "POST", "findUnique")
  /\ \E ok \in BOOLEAN :
       reqs' = [reqs EXCEPT ![i] =
         LET r == Called(@, "findUnique")
             existingSeller == ExistingSeller(profiles, r.sid)
         IN  IF ~ok THEN Catch(r, "findUnique")
             ELSE IF existingSeller # Null THEN Respond(r, Conflict)
             ELSE [r EXCEPT !.pc = "create"]]
  /\ UNCHANGED <<profiles, role, nextId, clock, menu, quota>>
  /\ UNCHANGED pages

\* POST: db.sellerProfile.create resolves or throws
PostCreate(i) ==
  /\ At(i, "POST", "create")
  /\ LET r == Called(reqs[i], "create")
         data == SafeParse(r.body).data
         row == NewRow(nextId, clock, ProfileData(r.sid, data, clock))
     IN  \E ok \in BOOLEAN :
           IF ~ok \/ UniqueViolation(profiles, r.sid)
           THEN /\ reqs' = [reqs EXCEPT ![i] =
                     Catch(r, IF ok THEN "unique constraint" ELSE "create")]
                /\ UNCHANGED <<profiles, nextId, clock>>
           ELSE /\ profiles' = profiles \cup {row}
                /\ nextId' = nextId + 1
                /\ clock' = clock + 1
                /\ reqs' = [reqs EXCEPT ![i] =
                     [r EXCEPT !.pc = "update", !.seller = Select(row, CreateSelect)]]
  /\ UNCHANGED <<role, menu, quota>>
  /\ UNCHANGED pages

\* a handler that deletes the profile again when the role update throws
PostUpdateRollback(i) ==
  /\ At(i, "POST", "update")
  /\ LET r == Called(reqs[i], "update")
     IN  \E ok \in BOOLEAN :
           IF ~ok
           THEN /\ reqs' = [reqs EXCEPT ![i] = Catch(r, "update")]
                /\ profiles' = profiles \ RowsOf(profiles, r.sid)
                /\ UNCHANGED role
           ELSE /\ role' = [role EXCEPT ![r.sid] = SellerRole]
                /\ reqs' = [reqs EXCEPT ![i] = Respond(r, Created(r.seller))]
                /\ UNCHANGED profiles
  /\ UNCHANGED <<nextId, clock, menu, quota>>
  /\ UNCHANGED pages

\* POST: db.user.update resolves or throws
PostUpdate(i) ==
  /\ At(i, "POST", "update")
  /\ LET r == Called(reqs[i], "update")
     IN  \E ok \in BOOLEAN :
           IF ~ok
           THEN /\ reqs' = [reqs EXCEPT ![i] = Catch(r, "update")]
                /\ UNCHANGED role
           ELSE /\ role' = [role EXCEPT ![r.sid] = SellerRole]
                /\ reqs' = [reqs EXCEPT ![i] = Respond(r, Created(r.seller))]
  /\ UNCHANGED <<profiles, nextId, clock, menu, quota>>
  /\ UNCHANGED pages

\* GET: getServerSession resolves
GetSession(i) ==
  /\ At(i, "GET", "session")
  /\ reqs' = [reqs EXCEPT ![i] =
       IF Unauthenticated(@.sid) THEN Respond(@, Unauthorized)
       ELSE [@ EXCEPT !.pc = "findUnique"]]
  /\ UNCHANGED <<profiles, role, nextId, clock, menu, quota>>
  /\ UNCHANGED pages

\* a query that also writes the seller role when it finds the profile
GetFindUniqueTouch(i) ==
  /\ At(i, "GET", "findUnique")
  /\ \E ok \in BOOLEAN :
       LET r == Called(reqs[i], "findUnique")
           sellerProfile == SellerProfileOf(profiles, r.sid)
       IN  /\ reqs' = [reqs EXCEPT ![i] =
                 IF ~ok THEN Catch(r, "findUnique")
                 ELSE IF sellerProfile = Null THEN Respond(r, NotFound)
                 ELSE Respond(r, Ok(sellerProfile))]
           /\ role' = IF ok /\ sellerProfile # Null
                      THEN [role EXCEPT ![r.sid] = SellerRole] ELSE role
  /\ UNCHANGED <<profiles, nextId, clock, menu, quota>>
  /\ UNCHANGED pages

\* GET: db.sellerProfile.findUnique resolves or throws
GetFindUnique(i) ==
  /\ At(i, "GET", "findUnique")
  /\ \E ok \in BOOLEAN :
       reqs' = [reqs EXCEPT ![i] =
         LET r == Called(@, "findUnique")
             sellerProfile == SellerProfileOf(profiles, r.sid)
         IN  IF ~ok THEN Catch(r, "findUnique")
             ELSE IF sellerProfile = Null THEN Respond(r, NotFound)
             ELSE Respond(r, Ok(sellerProfile))]
  /\ UNCHANGED <<profiles, role, nextId, clock, menu, quota>>
  /\ UNCHANGED pages

(***************************************************************************)
(* The documents page (src/app/seller/documents/page.tsx).                 *)
(***************************************************************************)

\* a page that is not open
Unmounted == [route |-> ""]

\* how many of the document types the user works with
MaxDocTypes == 3

\* how many redirects to the dashboard may be pending at once
MaxPendingRedirects == 1

documentTypes ==
  << [value |-> "ID_FRONT", label |-> "Government ID (Front)", required |-> TRUE],
     [value |-> "ID_BACK", label |-> "Government ID (Back)", required |-> TRUE],
     [value |-> "BUSINESS_LICENSE", label |-> "Business License", required |-> FALSE],
     [value |-> "TAX_DOCUMENT", label |-> "Tax Document", required |-> FALSE],
     [value |-> "BANK_STATEMENT", label |-> "Bank Statement", required |-> FALSE],
     [value |-> "UTILITY_BILL", label |-> "Utility Bill", required |-> FALSE] >>

\* the types whose controls the user operates
DocTypeChoices ==
  {documentTypes[n].value :
     n \in 1..(IF MaxDocTypes < Len(documentTypes) THEN MaxDocTypes
               ELSE Len(documentTypes))}

allowedTypes == {"image/jpeg", "image/png", "image/jpg", "application/pdf"}

MaxFileSize == 5 * 1024 * 1024

\* e.target.files?.[0] || null when the dialog gives no file
NoFile == Null

File(name, type, size) == [name |-> name, type |-> type, size |-> size]

\* the files on the user's disk
FilesMenu ==
  { File("licence.pdf", "application/pdf", 4 * 1024 * 1024),
    File("front.jpg", "image/jpeg", 5 * 1024 * 1024),
    File("back.png", "image/png", 5 * 1024 * 1024 + 1),
    File("scan.png", "image/png", 6 * 1024 * 1024),
    File("letter.docx",
         "application/vnd.openxmlformats-officedocument.wordprocessingml.document",
         1024),
    File("book.docx",
         "application/vnd.openxmlformats-officedocument.wordprocessingml.document",
         6 * 1024 * 1024) }

\* URL.createObjectURL: a URL that stands for the file
CreateObjectURL(file) == <<"blob:", file.name>>

Message(type, text) == [type |-> type, text |-> text]

NoMessage == Message("", <<>>)

\* the page as useState initialises it
DocumentsPage ==
  [ route         |-> "/seller/documents",
    uploadedFiles |-> <<>>,
    uploading     |-> FALSE,
    message       |-> NoMessage,
    uploads       |-> 0,      \* simulated uploads whose 2000 ms timer runs
    redirects     |-> 0,      \* 3000 ms timers that will push the dashboard
    event         |-> [op |-> "", type |-> "", file |-> NoFile] ]  \* the last handler called

\* a filter that keeps every entry
WithoutTypeKeepAll(files, type) == files

\* prev.filter(f => f.type !== type)
WithoutType(files, type) ==
  LET Keep(f) == f.type # type IN SelectSeq(files, Keep)

\* uploadedFiles.find(f => f.type === type)
Staged(files, type) == {n \in 1..Len(files) : files[n].type = type}

\* handleFileSelect with a size limit that turns the exact limit away
HandleFileSelectStrict(d, type, file) ==
  IF file = NoFile THEN d
  ELSE IF file.type \notin allowedTypes
    THEN [d EXCEPT !.message =
            Message("error", <<"Only JPEG, PNG, and PDF files are allowed">>)]
  ELSE IF file.size >= MaxFileSize
    THEN [d EXCEPT !.message =
            Message("error", <<"File size must be less than 5MB">>)]
  ELSE [d EXCEPT
          !.uploadedFiles =
            Append(WithoutType(@, type),
                   [type |-> type, file |-> file,
                    preview |-> CreateObjectURL(file)]),
          !.message = Message("success", <<file.name, " uploaded successfully">>)]

\* handleFileSelect(type, file)
HandleFileSelect(d, type, file) ==
  IF file = NoFile THEN d
  ELSE IF file.type \notin allowedTypes
    THEN [d EXCEPT !.message =
            Message("error", <<"Only JPEG, PNG, and PDF files are allowed">>)]
  ELSE IF file.size > MaxFileSize
    THEN [d EXCEPT !.message =
            Message("error", <<"File size must be less than 5MB">>)]
  ELSE [d EXCEPT
          !.uploadedFiles =
            Append(WithoutType(@, type),
                   [type |-> type, file |-> file,
                    preview |-> CreateObjectURL(file)]),
          !.message = Message("success", <<file.name, " uploaded successfully">>)]

\* removeFile(type)
RemoveFileOf(d, type) ==
  [d EXCEPT !.uploadedFiles = WithoutType(@, type), !.message = NoMessage]

\* array.join(', ')
RECURSIVE Join(_)
Join(labels) ==
  IF Len(labels) = 0 THEN <<>>
  ELSE IF Len(labels) = 1 THEN labels
  ELSE <<Head(labels), ", ">> \o Join(Tail(labels))

\* a check of the required types that looks for the front side only
MissingRequiredFrontOnly(files) ==
  IF Staged(files, "ID_FRONT") = {} THEN <<"Government ID (Front)">> ELSE <<>>

\* the labels of the required types that have no staged file
MissingRequired(files) ==
  LET required == SelectSeq(documentTypes, LAMBDA t : t.required)
      Missing(t) == Staged(files, t.value) = {}
      missing == SelectSeq(required, Missing)
  IN  [n \in 1..Len(missing) |-> missing[n].label]

Event(op, type, file) == [op |-> op, type |-> type, file |-> file]

\* the user opens the documents page
OpenDocuments ==
  /\ docs = Unmounted
  /\ docs' = DocumentsPage
  /\ UNCHANGED <<profiles, role, nextId, clock, reqs, menu, quota, form, desk, dash>>

\* the user picks a file in the input of a type; the page renders the
\* input only while the type has no staged file
SelectFile ==
  /\ docs.route = "/seller/documents"
  /\ \E type \in DocTypeChoices, file \in desk \cup {NoFile} :
       /\ Staged(docs.uploadedFiles, type) = {}
       /\ docs' = [HandleFileSelect(docs, type, file) EXCEPT
                     !.event = Event("select", type, file)]
  /\ UNCHANGED <<profiles, role, nextId, clock, reqs, menu, quota, form, desk, dash>>

\* handleFileSelect called for a type that has a staged file
Reselect ==
  /\ docs.route = "/seller/documents"
  /\ \E type \in DocTypeChoices, file \in desk \cup {NoFile} :
       /\ Staged(docs.uploadedFiles, type) # {}
       /\ docs' = [HandleFileSelect(docs, type, file) EXCEPT
                     !.event = Event("reselect", type, file)]
  /\ UNCHANGED <<profiles, role, nextId, clock, reqs, menu, quota, form, desk, dash>>

\* the user presses the remove button of a staged file
RemoveFile ==
  /\ docs.route = "/seller/documents"
  /\ \E type \in DocTypeChoices :
       /\ Staged(docs.uploadedFiles, type) # {}
       /\ docs' = [RemoveFileOf(docs, type) EXCEPT
                     !.event = Event("remove", type, NoFile)]
  /\ UNCHANGED <<profiles, role, nextId, clock, reqs, menu, quota, form, desk, dash>>

\* the Submit Documents button is enabled
SubmitOffered(d) == ~(d.uploading \/ Len(d.uploadedFiles) = 0)

\* the user presses Submit Documents: handleSubmit up to its await
SubmitDocuments ==
  /\ docs.route = "/seller/documents"
  /\ SubmitOffered(docs)
  /\ docs.redirects < MaxPendingRedirects
  /\ LET missing == MissingRequired(docs.uploadedFiles) IN
       docs' =
         IF Len(missing) > 0
           THEN [docs EXCEPT
                   !.message =
                     Message("error",
                             <<"Please upload required documents: ">>
                               \o Join(missing)),
                   !.event = Event("submit", "", NoFile)]
           ELSE [docs EXCEPT
                   !.uploading = TRUE,
                   !.message = NoMessage,
                   !.uploads = @ + 1,
                   !.event = Event("submit", "", NoFile)]
  /\ UNCHANGED <<profiles, role, nextId, clock, reqs, menu, quota, form, desk, dash>>

\* a simulated upload that marks the profiles verified when it completes
UploadDoneVerifies ==
  /\ docs # Unmounted
  /\ docs.uploads > 0
  /\ docs' = [docs EXCEPT !.uploads = @ - 1,
                          !.redirects = @ + 1,
                          !.uploading = FALSE,
                          !.event = Event("uploaded", "", NoFile)]
  /\ profiles' =
       {[row EXCEPT !.verificationStatus =
                    Str(<<"V", "E", "R", "I", "F", "I", "E", "D">>)] : row \in profiles}
  /\ UNCHANGED <<role, nextId, clock, reqs, menu, quota, form, desk, dash>>

\* the 2000 ms timer fires: handleSubmit after its await
UploadDone ==
  /\ docs # Unmounted
  /\ docs.uploads > 0
  /\ docs' =
       [docs EXCEPT
          !.uploads = @ - 1,
          !.message =
            Message("success",
                    <<"Documents uploaded successfully! Your verification is under review.">>),
          !.redirects = @ + 1,
          !.uploading = FALSE,
          !.event = Event("uploaded", "", NoFile)]
  /\ UNCHANGED <<profiles, role, nextId, clock, reqs, menu, quota, form, desk, dash>>

\* the 3000 ms timer fires: router.push('/seller/dashboard')
RedirectToDashboard ==
  /\ docs # Unmounted
  /\ docs.redirects > 0
  /\ docs' = [docs EXCEPT !.redirects = @ - 1,
                          !.route = "/seller/dashboard",
                          !.event = Event("redirect", "", NoFile)]
  /\ UNCHANGED <<profiles, role, nextId, clock, reqs, menu, quota, form, desk, dash>>

\* the documents page alone, its handlers called for every type
InitDocs ==
  /\ profiles = {}
  /\ role = [u \in Users |-> InitialRole]
  /\ nextId = 1
  /\ clock = 0
  /\ reqs = <<>>
  /\ menu = {}
  /\ quota = 0
  /\ form = Unmounted
  /\ docs = Unmounted
  /\ desk = FilesMenu
  /\ dash = Unmounted

NextDocs ==
  \/ OpenDocuments
  \/ SelectFile
  \/ Reselect
  \/ RemoveFile
  \/ SubmitDocuments
  \/ UploadDone
  \/ RedirectToDashboard

SpecDocs == InitDocs /\ [][NextDocs]_vars

(***************************************************************************)
(* The registration page (src/app/seller/register/page.tsx).               *)
(***************************************************************************)

\* how many times the user may press Submit Application
MaxSubmits == 2

\* the user of the browser
FormUser == "u1"

\* the minimum lengths of the client's copy of the schema
ClientMinLen ==
  [businessName |-> 2, contactPersonName |-> 2, addressLine1 |-> 5,
   city |-> 2, state |-> 2, country |-> 2, postalCode |-> 3, taxId |-> 1,
   businessLicense |-> 1, bankAccountHolder |-> 1, bankName |-> 1,
   accountNumber |-> 1, ifscSwiftCode |-> 1]

\* the client's sellerRegistrationSchema on one key
ClientFieldOk(k, v) ==
  IF k \in DOMAIN ClientMinLen
    THEN IsStr(v) /\ Len(v.s) >= ClientMinLen[k]
    ELSE FieldOk(k, v)

\* zodResolver(sellerRegistrationSchema) finds no error in the values
ClientValid(values) == \A k \in SchemaKeys : ClientFieldOk(k, values[k])

\* the values of a form nobody has typed into: defaultValues, and the
\* unchecked terms checkbox of step 5
EmptyForm ==
  [k \in SchemaKeys |->
     CASE k = "managesOwnShipping" -> Bool(TRUE)
       [] k = "needsShippingHelp" -> Bool(FALSE)
       [] k = "productCategories" -> Arr(<<>>)
       [] k = "termsAccepted" -> Bool(FALSE)
       [] OTHER -> Undef]

\* the values of a form filled in completely
FilledForm ==
  [Base EXCEPT !.managesOwnShipping = Bool(TRUE),
               !.needsShippingHelp = Bool(FALSE)]

\* what the user may have typed
FormMenu == {EmptyForm, FilledForm}

\* the page as useState and useForm initialise it
RegisterPage ==
  [ route       |-> "/seller/register",
    isLoading   |-> FALSE,
    error       |-> "",
    success     |-> FALSE,
    currentStep |-> 1,
    values      |-> EmptyForm,
    pending     |-> {},     \* the requests whose fetch has not settled
    redirects   |-> 0,      \* 2000 ms timers that will push the dashboard
    presses     |-> 0,      \* how often Submit Application was pressed
    trail       |-> <<>> ]  \* the selections the category toggles went through

\* a page that keeps the form on the screen after success
FormShownAlways == form.route = "/seller/register"

\* the form is on the screen: the page is open and not showing the
\* success screen
FormShown == form.route = "/seller/register" /\ ~form.success

\* the user opens the registration page
OpenRegister ==
  /\ form = Unmounted
  /\ form' = RegisterPage
  /\ UNCHANGED <<profiles, role, nextId, clock, reqs, menu, quota, docs, desk, dash>>

\* the user types into the fields
FillForm ==
  /\ FormShown
  /\ \E values \in FormMenu :
       /\ values # form.values
       /\ form' = [form EXCEPT !.values = values]
  /\ UNCHANGED <<profiles, role, nextId, clock, reqs, menu, quota, docs, desk, dash>>

\* a Next button that is offered on every step
NextStepAlways ==
  /\ FormShown
  /\ form' = [form EXCEPT !.currentStep = @ + 1]
  /\ UNCHANGED <<profiles, role, nextId, clock, reqs, menu, quota, docs, desk, dash>>

\* the Next button
NextStep ==
  /\ FormShown
  /\ form.currentStep < 5
  /\ form' = [form EXCEPT !.currentStep = @ + 1]
  /\ UNCHANGED <<profiles, role, nextId, clock, reqs, menu, quota, docs, desk, dash>>

\* the Previous button
PreviousStep ==
  /\ FormShown
  /\ form.currentStep > 1
  /\ form' = [form EXCEPT !.currentStep = @ - 1]
  /\ UNCHANGED <<profiles, role, nextId, clock, reqs, menu, quota, docs, desk, dash>>

\* onSubmit(watch()) up to its fetch
OnSubmit ==
  /\ reqs' = Append(reqs, NewRequest("POST", FormUser, Obj(form.values)))
  /\ form' = [form EXCEPT !.isLoading = TRUE,
                          !.error = "",
                          !.pending = @ \cup {Len(reqs) + 1},
                          !.presses = @ + 1]
  /\ quota' = quota - 1
  /\ UNCHANGED <<profiles, role, nextId, clock, menu, docs, desk, dash>>

\* a Submit Application button that is never disabled
PressSubmitAlways ==
  /\ FormShown
  /\ form.currentStep = 5
  /\ quota > 0
  /\ OnSubmit

\* the Submit Application button of step 5, disabled while isLoading
PressSubmit ==
  /\ FormShown
  /\ form.currentStep = 5
  /\ ~form.isLoading
  /\ quota > 0
  /\ OnSubmit

\* a response handler that sends the request again when it failed
FormResponseRetry(i) ==
  /\ form # Unmounted
  /\ i \in form.pending
  /\ reqs[i].pc = "done"
  /\ IF reqs[i].resp.status \in 200..299
       THEN /\ form' = [form EXCEPT !.success = TRUE,
                                    !.redirects = @ + 1,
                                    !.isLoading = FALSE,
                                    !.pending = @ \ {i}]
            /\ UNCHANGED reqs
       ELSE /\ form' = [form EXCEPT !.pending = (@ \ {i}) \cup {Len(reqs) + 1}]
            /\ reqs' = Append(reqs, NewRequest("POST", FormUser, reqs[i].body))
  /\ UNCHANGED <<profiles, role, nextId, clock, menu, quota, docs, desk, dash>>

\* onSubmit after its fetch: the response has arrived
FormResponse(i) ==
  /\ form # Unmounted
  /\ i \in form.pending
  /\ reqs[i].pc = "done"
  /\ form' =
       IF reqs[i].resp.status \in 200..299
         THEN [form EXCEPT !.success = TRUE,
                           !.redirects = @ + 1,
                           !.isLoading = FALSE,
                           !.pending = @ \ {i}]
         ELSE [form EXCEPT
                 !.error =
                   IF /\ "message" \in DOMAIN reqs[i].resp.body
                      /\ reqs[i].resp.body.message # ""
                     THEN reqs[i].resp.body.message
                     ELSE "Something went wrong",
                 !.isLoading = FALSE,
                 !.pending = @ \ {i}]
  /\ UNCHANGED <<profiles, role, nextId, clock, reqs, menu, quota, docs, desk, dash>>

\* an onSubmit whose catch leaves isLoading set
FormNetworkErrorStuck(i) ==
  /\ form # Unmounted
  /\ i \in form.pending
  /\ form' = [form EXCEPT !.error = "An error occurred. Please try again.",
                          !.pending = @ \ {i}]
  /\ UNCHANGED <<profiles, role, nextId, clock, reqs, menu, quota, docs, desk, dash>>

\* onSubmit after its fetch: the fetch has rejected
FormNetworkError(i) ==
  /\ form # Unmounted
  /\ i \in form.pending
  /\ form' = [form EXCEPT !.error = "An error occurred. Please try again.",
                          !.isLoading = FALSE,
                          !.pending = @ \ {i}]
  /\ UNCHANGED <<profiles, role, nextId, clock, reqs, menu, quota, docs, desk, dash>>

\* the 2000 ms timer fires: router.push('/seller/dashboard')
FormRedirect ==
  /\ form # Unmounted
  /\ form.redirects > 0
  /\ form' = [form EXCEPT !.redirects = @ - 1, !.route = "/seller/dashboard"]
  /\ UNCHANGED <<profiles, role, nextId, clock, reqs, menu, quota, docs, desk, dash>>

\* one browser with the registration page, and the endpoint behind it
InitForm ==
  /\ profiles = {}
  /\ role = [u \in Users |-> InitialRole]
  /\ nextId = 1
  /\ clock = 0
  /\ reqs = <<>>
  /\ menu = {}
  /\ quota = MaxSubmits
  /\ form = Unmounted
  /\ docs = Unmounted
  /\ desk = {}
  /\ dash = Unmounted

NextForm ==
  \/ OpenRegister
  \/ FillForm
  \/ NextStep
  \/ PreviousStep
  \/ PressSubmit
  \/ \E i \in 1..Len(reqs) : FormResponse(i)
  \/ \E i \in 1..Len(reqs) : FormNetworkError(i)
  \/ FormRedirect
  \/ \E i \in 1..Len(reqs) : PostSession(i)
  \/ \E i \in 1..Len(reqs) : PostJson(i)
  \/ \E i \in 1..Len(reqs) : PostFindUnique(i)
  \/ \E i \in 1..Len(reqs) : PostCreate(i)
  \/ \E i \in 1..Len(reqs) : PostUpdate(i)

SpecForm == InitForm /\ [][NextForm]_vars

\* the registration handler runs to its end, the continuation of a fetch
\* that got its response runs, and the redirect timer fires
FairForm ==
  /\ WF_vars(\E i \in 1..Len(reqs) : PostSession(i))
  /\ WF_vars(\E i \in 1..Len(reqs) : PostJson(i))
  /\ WF_vars(\E i \in 1..Len(reqs) : PostFindUnique(i))
  /\ WF_vars(\E i \in 1..Len(reqs) : PostCreate(i))
  /\ WF_vars(\E i \in 1..Len(reqs) : PostUpdate(i))
  /\ WF_vars(\E i \in 1..Len(reqs) : FormResponse(i))
  /\ WF_vars(FormRedirect)

SpecFormLive == InitForm /\ [][NextForm]_vars /\ FairForm

\* how many of the catalog's categories the user works with
MaxCategories == 3

\* how long a selection the toggles may start from
MaxSelection == 2

\* how many times the user may toggle
MaxToggles == 4

\* the categories whose checkboxes the user operates
CategoryChoices ==
  {productCategories[n] :
     n \in 1..(IF MaxCategories < Len(productCategories) THEN MaxCategories
               ELSE Len(productCategories))}

\* the selections of at most MaxSelection entries, repeated entries included
Selections ==
  UNION {[1..n -> CategoryChoices] : n \in 0..MaxSelection}

\* current.includes(category)
Includes(current, category) == \E n \in 1..Len(current) : current[n] = category

\* a toggle that appends whether or not the category is selected
ToggleAppend(current, category) == Append(current, category)

\* toggleCategory: the updated selection
toggleCategory(current, category) ==
  IF Includes(current, category)
    THEN LET Other(c) == c # category IN SelectSeq(current, Other)
    ELSE Append(current, category)

\* watch('productCategories') || []
selectedCategories ==
  IF Falsy(form.values.productCategories) THEN <<>>
  ELSE form.values.productCategories.a

\* the user clicks the checkbox of a category on step 4
ClickCategory ==
  /\ FormShown
  /\ form.currentStep = 4
  /\ Len(form.trail) < MaxToggles
  /\ \E category \in CategoryChoices :
       form' =
         [form EXCEPT
            !.values.productCategories =
              Arr(toggleCategory(selectedCategories, category)),
            !.trail = Append(@, [selection |-> selectedCategories,
                                 category |-> category])]
  /\ UNCHANGED <<profiles, role, nextId, clock, reqs, menu, quota, docs, desk, dash>>

\* the registration page on step 4, for every selection
InitToggle ==
  /\ profiles = {}
  /\ role = [u \in Users |-> InitialRole]
  /\ nextId = 1
  /\ clock = 0
  /\ reqs = <<>>
  /\ menu = {}
  /\ quota = 0
  /\ \E selection \in Selections :
       form = [RegisterPage EXCEPT !.currentStep = 4,
                                   !.values.productCategories = Arr(selection)]
  /\ docs = Unmounted
  /\ desk = {}
  /\ dash = Unmounted

NextToggle == ClickCategory

SpecToggle == InitToggle /\ [][NextToggle]_vars

(***************************************************************************)
(* The operations on a profile together: the two endpoints and the         *)
(* documents page.                                                         *)
(***************************************************************************)

\* how many requests reach the endpoints beside the documents page
MaxScopeRequests == 2

\* the one file the user stages
ScopeDesk == {File("licence.pdf", "application/pdf", 4 * 1024 * 1024)}

InitScope ==
  /\ profiles = {}
  /\ role = [u \in Users |-> InitialRole]
  /\ nextId = 1
  /\ clock = 0
  /\ reqs = <<>>
  /\ menu = {Obj(Base)}
  /\ quota = MaxScopeRequests
  /\ form = Unmounted
  /\ docs = Unmounted
  /\ desk = ScopeDesk
  /\ dash = Unmounted

NextScope ==
  \/ Arrive
  \/ \E i \in 1..Len(reqs) : PostSession(i)
  \/ \E i \in 1..Len(reqs) : PostJson(i)
  \/ \E i \in 1..Len(reqs) : PostFindUnique(i)
  \/ \E i \in 1..Len(reqs) : PostCreate(i)
  \/ \E i \in 1..Len(reqs) : PostUpdate(i)
  \/ \E i \in 1..Len(reqs) : GetSession(i)
  \/ \E i \in 1..Len(reqs) : GetFindUnique(i)
  \/ OpenDocuments
  \/ SelectFile
  \/ RemoveFile
  \/ SubmitDocuments
  \/ UploadDone
  \/ RedirectToDashboard

SpecScope == InitScope /\ [][NextScope]_vars

(***************************************************************************)
(* The seller dashboard (src/app/seller/dashboard/page.tsx).               *)
(***************************************************************************)

\* how many requests reach the endpoints beside the dashboard's fetch
MaxDashRequests == 1

\* the page as useState initialises it, useSession still loading
DashboardPage ==
  [ route         |-> "/seller/dashboard",
    status        |-> "loading",
    sellerProfile |-> Null,
    loading       |-> TRUE,
    pending       |-> 0,      \* the request of fetchSellerProfile, 0 for none
    pushed        |-> "",     \* the route router.push was called with
    fetched       |-> "" ]    \* how the fetch ended: "ok", "404", "other", "error"

\* what the component renders
DashView(d) ==
  IF d.status = "loading" \/ d.loading THEN "Loading..."
  ELSE IF d.status = "unauthenticated" THEN "null"
  ELSE IF d.sellerProfile = Null THEN "No Seller Profile Found"
  ELSE "Seller Dashboard"

\* the user opens the dashboard
OpenDashboard ==
  /\ dash = Unmounted
  /\ dash' = DashboardPage
  /\ UNCHANGED <<profiles, role, nextId, clock, reqs, menu, quota, form, docs, desk>>

\* useSession resolves; the effect calls fetchSellerProfile when the status
\* is authenticated
DashSession ==
  /\ dash # Unmounted
  /\ dash.status = "loading"
  /\ \E status \in {"authenticated", "unauthenticated"} :
       IF status = "authenticated"
         THEN /\ reqs' = Append(reqs, NewRequest("GET", FormUser, Undef))
              /\ dash' = [dash EXCEPT !.status = status,
                                      !.pending = Len(reqs) + 1]
         ELSE /\ dash' = [dash EXCEPT !.status = status]
              /\ UNCHANGED reqs
  /\ UNCHANGED <<profiles, role, nextId, clock, menu, quota, form, docs, desk>>

\* a fetchSellerProfile that leaves loading set when the profile is missing
DashResponseStuck(i) ==
  /\ dash # Unmounted
  /\ dash.pending = i
  /\ reqs[i].pc = "done"
  /\ dash' =
       IF reqs[i].resp.status \in 200..299
         THEN [dash EXCEPT !.sellerProfile = reqs[i].resp.body.seller,
                           !.loading = FALSE,
                           !.pending = 0,
                           !.fetched = "ok"]
       ELSE IF reqs[i].resp.status = 404
         THEN [dash EXCEPT !.pushed = "/seller/register",
                           !.pending = 0,
                           !.fetched = "404"]
       ELSE [dash EXCEPT !.loading = FALSE, !.pending = 0, !.fetched = "other"]
  /\ UNCHANGED <<profiles, role, nextId, clock, reqs, menu, quota, form, docs, desk>>

\* fetchSellerProfile after its fetch: the response has arrived
DashResponse(i) ==
  /\ dash # Unmounted
  /\ dash.pending = i
  /\ reqs[i].pc = "done"
  /\ dash' =
       IF reqs[i].resp.status \in 200..299
         THEN [dash EXCEPT !.sellerProfile = reqs[i].resp.body.seller,
                           !.loading = FALSE,
                           !.pending = 0,
                           !.fetched = "ok"]
       ELSE IF reqs[i].resp.status = 404
         THEN [dash EXCEPT !.pushed = "/seller/register",
                           !.loading = FALSE,
                           !.pending = 0,
                           !.fetched = "404"]
       ELSE [dash EXCEPT !.loading = FALSE, !.pending = 0, !.fetched = "other"]
  /\ UNCHANGED <<profiles, role, nextId, clock, reqs, menu, quota, form, docs, desk>>

\* fetchSellerProfile after its fetch: the fetch has rejected
DashNetworkError(i) ==
  /\ dash # Unmounted
  /\ dash.pending = i
  /\ dash' = [dash EXCEPT !.loading = FALSE, !.pending = 0, !.fetched = "error"]
  /\ UNCHANGED <<profiles, role, nextId, clock, reqs, menu, quota, form, docs, desk>>

\* the Complete Registration button of the panel shown without a profile
DashCompleteRegistration ==
  /\ dash # Unmounted
  /\ dash.route = "/seller/dashboard"
  /\ DashView(dash) = "No Seller Profile Found"
  /\ dash.pushed = ""
  /\ dash' = [dash EXCEPT !.pushed = "/seller/register"]
  /\ UNCHANGED <<profiles, role, nextId, clock, reqs, menu, quota, form, docs, desk>>

\* the navigation that router.push started completes
DashNavigate ==
  /\ dash # Unmounted
  /\ dash.route = "/seller/dashboard"
  /\ dash.pushed # ""
  /\ dash' = [dash EXCEPT !.route = dash.pushed]
  /\ UNCHANGED <<profiles, role, nextId, clock, reqs, menu, quota, form, docs, desk>>

\* one browser with the dashboard, and the endpoints behind it
InitDash ==
  /\ profiles = {}
  /\ role = [u \in Users |-> InitialRole]
  /\ nextId = 1
  /\ clock = 0
  /\ reqs = <<>>
  /\ menu = {Obj(Base)}
  /\ quota = MaxDashRequests
  /\ form = Unmounted
  /\ docs = Unmounted
  /\ desk = {}
  /\ dash = Unmounted

Init ==
  /\ profiles = {}
  /\ role = [u \in Users |-> InitialRole]
  /\ nextId = 1
  /\ clock = 0
  /\ reqs = <<>>
  /\ menu = CoreMenu
  /\ quota = MaxRequests
  /\ form = Unmounted
  /\ docs = Unmounted
  /\ desk = {}
  /\ dash = Unmounted

\* one request at a time over the payloads that exercise the schema
InitSchema ==
  /\ profiles = {}
  /\ role = [u \in Users |-> InitialRole]
  /\ nextId = 1
  /\ clock = 0
  /\ reqs = <<>>
  /\ menu = SchemaMenu
  /\ quota = MaxSchemaRequests
  /\ form = Unmounted
  /\ docs = Unmounted
  /\ desk = {}
  /\ dash = Unmounted

Next ==
  \/ Arrive
  \/ \E i \in 1..Len(reqs) : PostSession(i)
  \/ \E i \in 1..Len(reqs) : PostJson(i)
  \/ \E i \in 1..Len(reqs) : PostFindUnique(i)
  \/ \E i \in 1..Len(reqs) : PostCreate(i)
  \/ \E i \in 1..Len(reqs) : PostUpdate(i)
  \/ \E i \in 1..Len(reqs) : GetSession(i)
  \/ \E i \in 1..Len(reqs) : GetFindUnique(i)

Spec == Init /\ [][Next]_vars
SpecSchema == InitSchema /\ [][Next]_vars

\* how many requests reach the endpoints over the payloads with optional
\* fields
MaxOptionalRequests == 2

\* payloads that differ in their optional fields
OptionalMenu ==
  { Obj(With(Base, "yearsInBusiness", Num(0))),
    Obj([Base EXCEPT
           !.yearsInBusiness = Num(100),
           !.description =
             Str(<<"H", "a", "n", "d", "m", "a", "d", "e", " ", "g", "o",
                   "o", "d", "s">>),
           !.gstVatNumber = Str(<<"G", "1">>)]),
    Obj([Base EXCEPT
           !.yearsInBusiness = Num(7),
           !.website = Str(<<>>),
           !.businessEmail = Str(<<>>),
           !.addressLine2 = Str(<<>>)]) }

InitOptional ==
  /\ profiles = {}
  /\ role = [u \in Users |-> InitialRole]
  /\ nextId = 1
  /\ clock = 0
  /\ reqs = <<>>
  /\ menu = OptionalMenu
  /\ quota = MaxOptionalRequests
  /\ form = Unmounted
  /\ docs = Unmounted
  /\ desk = {}
  /\ dash = Unmounted

SpecOptional == InitOptional /\ [][Next]_vars

NextDash ==
  \/ Arrive
  \/ \E i \in 1..Len(reqs) : PostSession(i)
  \/ \E i \in 1..Len(reqs) : PostJson(i)
  \/ \E i \in 1..Len(reqs) : PostFindUnique(i)
  \/ \E i \in 1..Len(reqs) : PostCreate(i)
  \/ \E i \in 1..Len(reqs) : PostUpdate(i)
  \/ \E i \in 1..Len(reqs) : GetSession(i)
  \/ \E i \in 1..Len(reqs) : GetFindUnique(i)
  \/ OpenDashboard
  \/ DashSession
  \/ \E i \in 1..Len(reqs) : DashResponse(i)
  \/ \E i \in 1..Len(reqs) : DashNetworkError(i)
  \/ DashCompleteRegistration
  \/ DashNavigate

\* the query handler runs to its end, the continuation of a settled fetch
\* runs, and a started navigation completes
FairDash ==
  /\ WF_vars(DashSession)
  /\ WF_vars(\E i \in 1..Len(reqs) : GetSession(i))
  /\ WF_vars(\E i \in 1..Len(reqs) : GetFindUnique(i))
  /\ WF_vars(\E i \in 1..Len(reqs) : DashResponse(i))
  /\ WF_vars(DashNavigate)

SpecDash == InitDash /\ [][NextDash]_vars /\ FairDash

TypeOK ==
  /\ \A row \in profiles : row.userId \in Users
  /\ role \in [Users -> {InitialRole, SellerRole}]
  /\ DOMAIN Base = SchemaKeys

(***************************************************************************)
(* Properties.                                                             *)
(***************************************************************************)
Requests == 1..Len(reqs)
Posts == {i \in Requests : reqs[i].kind = "POST"}
Gets == {i \in Requests : reqs[i].kind = "GET"}
Done(i) == reqs[i].pc = "done"
Status(i) == reqs[i].resp.status
HasCalled(i, op) == \E n \in 1..Len(reqs[i].calls) : reqs[i].calls[n] = op

\* C1: in every reachable state of the profile store, whatever requests
\* arrived and however they interleaved, an identity has at most one profile.
C1_OneProfilePerIdentity ==
  \A u \in Sessions : Cardinality(RowsOf(profiles, u)) <= 1

\* two registrations of one identity both passed the existing-profile check
\* and both called create, and the identity has a profile
C1_Witness ==
  \E i, j \in Posts :
    /\ i # j /\ reqs[i].sid = reqs[j].sid
    /\ HasCalled(i, "create") /\ HasCalled(j, "create")
    /\ RowsOf(profiles, reqs[i].sid) # {}

\* two registrations of one identity raced: both called create (so both
\* looked up before either row existed) and nothing but the race went wrong
Raced(i, j) ==
  /\ i # j /\ reqs[i].sid = reqs[j].sid
  /\ Done(i) /\ Done(j)
  /\ HasCalled(i, "create") /\ HasCalled(j, "create")
  /\ reqs[i].threw \in {"", "unique constraint"}
  /\ reqs[j].threw \in {"", "unique constraint"}

\* C2: when two valid registrations of one identity interleave, one gets 201
\* and the other gets Conflict (409), never another outcome, and one row exists.
C2_RaceLoserGetsConflict ==
  \A i, j \in Posts :
    Raced(i, j) =>
      /\ {Status(i), Status(j)} = {201, 409}
      /\ Cardinality(RowsOf(profiles, reqs[i].sid)) = 1

\* C3: a valid registration of an identity that already has a profile is
\* answered with Conflict (409) when its lookup returns, and that step changes
\* neither the store nor any role; the request never calls create or update.
C3_SecondRegistrationConflict ==
  [][\A i \in Posts :
       ( /\ reqs[i].pc = "findUnique"
         /\ reqs'[i].pc # "findUnique"
         /\ reqs'[i].threw = ""
         /\ RowsOf(profiles, reqs[i].sid) # {} )
       => /\ reqs'[i].resp.status = 409
          /\ reqs'[i].pc = "done"
          /\ reqs'[i].calls = <<"findUnique">>
          /\ profiles' = profiles
          /\ role' = role]_vars

\* a registration got 201 and a later registration of the same identity got
\* Conflict
C3_Witness ==
  \E i, j \in Posts :
    /\ i < j /\ reqs[i].sid = reqs[j].sid
    /\ Status(i) = 201 /\ Status(j) = 409
    /\ Cardinality(RowsOf(profiles, reqs[i].sid)) = 1

\* C4: whenever a registration returned 201, the store holds a profile of the
\* caller (the one the response names) with verificationStatus PENDING, and
\* the caller's role is SELLER.
C4_CreatedIsPendingSeller ==
  \A i \in Posts :
    Status(i) = 201 =>
      /\ \E row \in profiles :
           /\ row.userId = reqs[i].sid
           /\ row.id = reqs[i].resp.body.seller.id
           /\ row.verificationStatus = Str(<<"P", "E", "N", "D", "I", "N", "G">>)
      /\ role[reqs[i].sid] = "SELLER"

\* a registration returned 201
C4_Witness == \E i \in Posts : Done(i) /\ Status(i) = 201

\* the required keys as the specification lists them
C5_Required ==
  {"businessName", "businessType", "phone", "contactPersonName", "addressLine1",
   "city", "state", "country", "postalCode", "taxId", "businessLicense",
   "bankAccountHolder", "bankName", "accountNumber", "ifscSwiftCode",
   "productCategories", "termsAccepted"}

\* a payload that misses a required key, has no category or has not accepted
\* the terms
Lacking(body) ==
  /\ body.t = "object"
  /\ \/ \E k \in C5_Required : body.o[k] = Undef
     \/ body.o.productCategories = Arr(<<>>)
     \/ body.o.termsAccepted # Bool(TRUE)

\* C5: an authenticated registration whose payload misses a required field,
\* has an empty productCategories or has termsAccepted other than true is
\* answered with 400 and field errors; it makes no store call, and none of
\* its steps changes the store or a role.
C5_LackingPayloadRejected ==
  /\ [](\A i \in Posts :
          (reqs[i].sid # NoSession /\ Lacking(reqs[i].body)) =>
            /\ reqs[i].pc \in {"session", "json", "done"}
            /\ reqs[i].calls = <<>>
            /\ Done(i) =>
                 /\ Status(i) = 400
                 /\ reqs[i].resp.body.errors.fieldErrors # {})
  /\ [][\A i \in Posts :
          ( /\ reqs[i].sid # NoSession
            /\ Lacking(reqs[i].body)
            /\ reqs'[i] # reqs[i] )
          => (profiles' = profiles /\ role' = role)]_vars

\* an identity that has a profile sent a lacking payload and got 400
C5_Witness ==
  \E i \in Posts :
    /\ reqs[i].sid # NoSession /\ Lacking(reqs[i].body)
    /\ Status(i) = 400
    /\ RowsOf(profiles, reqs[i].sid) # {}

\* C6: a registration without a session user id is answered with 401
\* whatever its payload; it makes no store call, and none of its steps
\* changes the store or a role.
C6_UnauthenticatedRejected ==
  /\ [](\A i \in Posts :
          reqs[i].sid = NoSession =>
            /\ reqs[i].pc \in {"session", "done"}
            /\ reqs[i].calls = <<>>
            /\ Done(i) => Status(i) = 401)
  /\ [][\A i \in Posts :
          (reqs[i].sid = NoSession /\ reqs'[i] # reqs[i])
          => (profiles' = profiles /\ role' = role)]_vars

\* two registrations without a session, one with a valid payload and one
\* whose body does not parse, both got 401
C6_Witness ==
  \E i, j \in Posts :
    /\ reqs[i].sid = NoSession /\ reqs[j].sid = NoSession
    /\ reqs[i].body = Obj(Base) /\ reqs[j].body = Malformed
    /\ Status(i) = 401 /\ Status(j) = 401

\* the profile a registration created is in the store
CreatedRowPresent(i) ==
  \E row \in profiles :
    row.userId = reqs[i].sid /\ row.id = reqs[i].seller.id

\* C7: within a registration the profile row is created before the role
\* update is attempted; when the role update throws, the step leaves the
\* profile in the store and the roles as they were, and the request ends
\* with 500.
C7_CreateThenUpdateNoRollback ==
  /\ [](\A i \in Posts :
          /\ (reqs[i].pc = "update" \/ HasCalled(i, "update")) =>
               /\ SubSeq(reqs[i].calls, 1, 2) = <<"findUnique", "create">>
               /\ CreatedRowPresent(i)
          /\ reqs[i].threw = "update" =>
               /\ Done(i) /\ Status(i) = 500
               /\ role[reqs[i].sid] # "SELLER")
  /\ [][\A i \in Posts :
          (reqs[i].pc = "update" /\ reqs'[i].threw = "update")
          => (profiles' = profiles /\ role' = role)]_vars

\* a registration created its profile and its role update threw
C7_Witness ==
  \E i \in Posts :
    /\ reqs[i].threw = "update" /\ Status(i) = 500
    /\ RowsOf(profiles, reqs[i].sid) # {}
    /\ role[reqs[i].sid] = InitialRole

\* the tax, licence and bank keys as the claim lists them
C8_Private ==
  {"taxId", "gstVatNumber", "businessLicense", "bankAccountHolder", "bankName",
   "accountNumber", "ifscSwiftCode", "bankBranchAddress"}

\* the profile in the body of a 201 response
SellerOf(i) == reqs[i].resp.body.seller

\* C8: the profile in a 201 response has exactly the fields id, businessName,
\* businessType, verificationStatus and createdAt, and two 201 responses to
\* payloads that differ only in tax, licence or bank fields agree on every
\* field but the id and creation time the store gave the row.
C8_ResponseHidesPrivateFields ==
  \A i, j \in Posts :
    (Status(i) = 201 /\ Status(j) = 201) =>
      /\ DOMAIN SellerOf(i) =
           {"id", "businessName", "businessType", "verificationStatus", "createdAt"}
      /\ (\A k \in SchemaKeys \ C8_Private : reqs[i].body.o[k] = reqs[j].body.o[k])
         => \A f \in DOMAIN SellerOf(i) \ {"id", "createdAt"} :
              /\ f \in DOMAIN SellerOf(j)
              /\ SellerOf(i)[f] = SellerOf(j)[f]

\* two registrations whose payloads differ in every tax, licence and bank
\* field, and in nothing else, both got 201
C8_Witness ==
  \E i, j \in Posts :
    /\ Status(i) = 201 /\ Status(j) = 201
    /\ \A k \in SchemaKeys :
         (reqs[i].body.o[k] # reqs[j].body.o[k]) <=> k \in C8_Private

\* C9: a profile query without a session user id is answered with 401; a
\* query of an identity that has no profile when the lookup returns is
\* answered with 404; a query is answered with 200 only if its identity has
\* a profile, and the response carries that profile.
C9_QueryOutcomes ==
  /\ [](\A i \in Gets :
          /\ (reqs[i].sid = NoSession /\ Done(i)) => Status(i) = 401
          /\ Status(i) = 200 =>
               /\ RowsOf(profiles, reqs[i].sid) # {}
               /\ \E row \in RowsOf(profiles, reqs[i].sid) : row.id = SellerOf(i).id)
  /\ [][\A i \in Gets :
          ( /\ reqs[i].pc = "findUnique"
            /\ reqs'[i].pc # "findUnique"
            /\ reqs'[i].threw = ""
            /\ RowsOf(profiles, reqs[i].sid) = {} )
          => reqs'[i].resp.status = 404]_vars

\* a query without a session got 401 and a query of an identity without a
\* profile got 404
C9_Witness ==
  \E i, j \in Gets :
    /\ reqs[i].sid = NoSession /\ Status(i) = 401
    /\ reqs[j].sid # NoSession /\ Status(j) = 404
    /\ RowsOf(profiles, reqs[j].sid) = {}

\* the fields a query must return as the registration returned them
C10_Fields == {"id", "businessName", "businessType", "verificationStatus"}

\* C10: once a registration of an identity returned 201, a profile query of
\* that identity whose lookup returns is answered with 200 and the id,
\* businessName, businessType and verificationStatus of the registration
\* response, and the profile it returns belongs to that identity.
C10_QueryReturnsRegistered ==
  /\ [][\A j \in Gets : \A i \in Posts :
          ( /\ reqs[j].pc = "findUnique"
            /\ reqs'[j].pc # "findUnique"
            /\ reqs'[j].threw = ""
            /\ Status(i) = 201
            /\ reqs[i].sid = reqs[j].sid )
          => /\ reqs'[j].resp.status = 200
             /\ \A f \in C10_Fields :
                  reqs'[j].resp.body.seller[f] = SellerOf(i)[f]]_vars
  /\ [](\A j \in Gets :
          Status(j) = 200 =>
            \A row \in profiles :
              row.id = SellerOf(j).id => row.userId = reqs[j].sid)

\* a registration got 201 and a later query of the same identity got 200
C10_Witness ==
  \E i \in Posts : \E j \in Gets :
    /\ i < j /\ reqs[i].sid = reqs[j].sid
    /\ Status(i) = 201 /\ Status(j) = 200

\* C11: a profile query makes no store call but its lookup, and none of its
\* steps changes the store or a role, whether it ends with 200, 401, 404 or
\* 500.
C11_QueryReadOnly ==
  /\ [](\A i \in Gets :
          \A n \in 1..Len(reqs[i].calls) : reqs[i].calls[n] = "findUnique")
  /\ [][\A i \in Gets :
          reqs'[i] # reqs[i]
          => (profiles' = profiles /\ role' = role /\ nextId' = nextId)]_vars

\* a query got 200 for an identity whose registration failed at the role
\* update: the profile is there and the role is not SELLER
C11_Witness ==
  \E j \in Gets :
    /\ Status(j) = 200
    /\ RowsOf(profiles, reqs[j].sid) # {}
    /\ role[reqs[j].sid] # "SELLER"

\* C12: whatever throws inside a handler (body parsing, lookup, create, role
\* update), the request ends with a response, and the response is 500 with
\* the one generic message, the same for every cause.
C12_FailuresMasked ==
  \A i \in Requests :
    reqs[i].threw # "" =>
      /\ Done(i)
      /\ reqs[i].resp =
           [status |-> 500, body |-> [message |-> "Internal server error"]]

\* a registration and a query both failed, for different causes
C12_Witness ==
  \E i \in Posts : \E j \in Gets :
    /\ reqs[i].threw \in {"json", "create", "update", "unique constraint"}
    /\ reqs[j].threw = "findUnique"
    /\ Done(i) /\ Done(j)

\* the names of the catalog
CatalogNames == {productCategories[n] : n \in 1..Len(productCategories)}

\* a non-empty, duplicate-free selection of catalog names
CatalogSelection(v) ==
  /\ v.t = "array"
  /\ Len(v.a) >= 1
  /\ \A n \in 1..Len(v.a) : v.a[n] \in CatalogNames
  /\ \A m, n \in 1..Len(v.a) : v.a[m] = v.a[n] => m = n

\* C14: the productCategories of every stored profile is a non-empty,
\* duplicate-free selection of names of the 16-category catalog: no row is
\* created for a payload that names a category outside the catalog or names
\* a category twice.
C14_StoredCategoriesFromCatalog ==
  /\ Len(productCategories) = 16
  /\ \A row \in profiles : CatalogSelection(row.productCategories)

\* the documents page is open
DocsOpen == docs # Unmounted

\* the step is a call of handleFileSelect with a file
FileSelected ==
  /\ docs' # docs
  /\ docs'.event.op \in {"select", "reselect"}
  /\ docs'.event.file # NoFile

\* type is JPEG, PNG or PDF and size is at most 5 MiB
C19_Acceptable(file) ==
  /\ file.type \in {"image/jpeg", "image/jpg", "image/png", "application/pdf"}
  /\ file.size <= 5242880

\* C19: a selected file is accepted exactly when its type is JPEG, PNG or
\* PDF and its size is at most 5 MiB; a rejected file sets an error message
\* and leaves the staged files as they were, the entry of its type included.
C19_FileAcceptedIffTypeAndSize ==
  [][FileSelected =>
       LET file == docs'.event.file
           type == docs'.event.type
       IN  IF C19_Acceptable(file)
             THEN /\ \E n \in Staged(docs'.uploadedFiles, type) :
                       docs'.uploadedFiles[n].file = file
                  /\ docs'.message.type = "success"
             ELSE /\ docs'.uploadedFiles = docs.uploadedFiles
                  /\ docs'.message.type = "error"
                  /\ docs'.message.text # <<>>]_vars

\* a file over the limit was turned away for a type whose staged file, of
\* exactly 5 MiB, is still there
C19_Witness ==
  /\ DocsOpen
  /\ docs.event.op = "reselect"
  /\ docs.event.file # NoFile
  /\ docs.event.file.type = "image/png"
  /\ docs.event.file.size > 5242880
  /\ docs.message.type = "error"
  /\ \E n \in Staged(docs.uploadedFiles, docs.event.type) :
       docs.uploadedFiles[n].file.size = 5242880

\* the entries staged for a type
EntriesOf(files, type) == {files[n] : n \in Staged(files, type)}

\* C20: the staged files hold at most one entry per document type; an
\* accepted file for a type replaces the entry of that type and leaves the
\* entries of all other types as they were.
C20_OneEntryPerType ==
  /\ [](DocsOpen =>
          \A type \in DocTypeChoices :
            Cardinality(Staged(docs.uploadedFiles, type)) <= 1)
  /\ [][(FileSelected /\ docs'.message.type = "success") =>
          /\ \A e \in EntriesOf(docs'.uploadedFiles, docs'.event.type) :
               e.file = docs'.event.file
          /\ Staged(docs'.uploadedFiles, docs'.event.type) # {}
          /\ \A type \in DocTypeChoices \ {docs'.event.type} :
               EntriesOf(docs'.uploadedFiles, type)
                 = EntriesOf(docs.uploadedFiles, type)
          /\ Len(docs'.uploadedFiles)
               = Cardinality({docs'.uploadedFiles[n].type :
                                n \in 1..Len(docs'.uploadedFiles)})]_vars

\* a file took the place of the staged file of its type while another type
\* has a staged file
C20_Witness ==
  /\ DocsOpen
  /\ docs.event.op = "reselect"
  /\ docs.message.type = "success"
  /\ Len(docs.uploadedFiles) >= 2
  /\ \A e \in EntriesOf(docs.uploadedFiles, docs.event.type) :
       e.file = docs.event.file


\* the registration page is open
FormOpen == form # Unmounted

\* C15: the registration page issues a request only when the form data
\* passes the validation of its schema.
C15_RequestOnlyWhenValid ==
  \A i \in Posts : reqs[i].body.t = "object" => ClientValid(reqs[i].body.o)

\* C16: one registration page never has two of its requests in flight at
\* once, and it issues no request once a request of it has succeeded.
C16_OneRequestInFlight ==
  /\ [](FormOpen => Cardinality(form.pending) <= 1)
  /\ [][(FormOpen /\ form.success) => Len(reqs') = Len(reqs)]_vars

\* the second request of the page is in flight, the first one has been
\* answered, and the button of step 5 is on the screen
C16_Witness ==
  /\ FormOpen
  /\ FormShown
  /\ form.currentStep = 5
  /\ form.isLoading
  /\ form.presses = 2
  /\ form.pending = {2}
  /\ Done(1)

\* C17: every request of the registration page is issued by a press of
\* Submit: the requests number as many as the presses, also after a
\* submission has failed, and the endpoint sends none.
C17_NoAutomaticRetry ==
  /\ [](FormOpen => Len(reqs) = form.presses)
  /\ [][Len(reqs') # Len(reqs) =>
          /\ Len(reqs') = Len(reqs) + 1
          /\ form'.presses = form.presses + 1]_vars

\* the first submission failed and the page shows its error; the second
\* request is there after the second press
C17_Witness ==
  /\ FormOpen
  /\ Len(reqs) = 2
  /\ form.presses = 2
  /\ Done(1)
  /\ Status(1) \notin 200..299
  /\ 1 \notin form.pending


\* the categories of a selection
ToSet(selection) == {selection[n] : n \in 1..Len(selection)}

\* no category is in the selection more than once
NoDuplicates(selection) == Cardinality(ToSet(selection)) = Len(selection)

\* the selection after the n-th toggle
SelectionAfter(n) ==
  IF n = Len(form.trail) THEN selectedCategories
  ELSE form.trail[n + 1].selection

\* C18: toggling a category twice in a row yields the selection set there
\* was before, for every selection; the toggles that start from the empty
\* selection never produce a selection with a category in it twice.
C18_ToggleTwiceIsIdentity ==
  FormOpen =>
    /\ \A n \in 1..(Len(form.trail) - 1) :
         form.trail[n].category = form.trail[n + 1].category
           => ToSet(SelectionAfter(n + 1)) = ToSet(form.trail[n].selection)
    /\ (Len(form.trail) > 0 /\ form.trail[1].selection = <<>>)
         => NoDuplicates(selectedCategories)

\* from the empty selection two categories were selected, and then the
\* first of them was toggled twice
C18_Witness ==
  /\ FormOpen
  /\ Len(form.trail) = 4
  /\ form.trail[1].selection = <<>>
  /\ Len(form.trail[3].selection) = 2
  /\ form.trail[3].category = form.trail[3].selection[1]
  /\ form.trail[4].category = form.trail[3].category
  /\ Len(selectedCategories) = 2


\* the status of a profile that awaits review
C13_Pending == Str(<<"P", "E", "N", "D", "I", "N", "G">>)

\* C13: once a profile exists, no registration request, profile query or
\* step of the documents page removes it or changes its verificationStatus:
\* every profile of the store is PENDING and is still there after every
\* step.
C13_ProfileStaysPending ==
  /\ [](\A row \in profiles : row.verificationStatus = C13_Pending)
  /\ [][\A row \in profiles :
          \E kept \in profiles' :
            /\ kept.id = row.id
            /\ kept.userId = row.userId
            /\ kept.verificationStatus = C13_Pending]_vars

\* a profile is in the store after a second registration of its owner was
\* turned away and the documents page completed its upload and redirected
C13_Witness ==
  /\ \E row \in profiles :
       \E i \in Posts : reqs[i].sid = row.userId /\ Done(i) /\ Status(i) = 409
  /\ DocsOpen
  /\ docs.route = "/seller/dashboard"


\* the documents page is on the screen
DocsShown == DocsOpen /\ docs.route = "/seller/documents"

\* the step is a run of handleSubmit
SubmitPressed == docs' # docs /\ docs'.event.op = "submit"

\* a required type has no staged file
C21_Missing(d) ==
  Staged(d.uploadedFiles, "ID_FRONT") = {} \/ Staged(d.uploadedFiles, "ID_BACK") = {}

\* the message that lists the labels of the missing required documents
C21_Message(d) ==
  [type |-> "error",
   text |->
     <<"Please upload required documents: ">>
       \o (IF Staged(d.uploadedFiles, "ID_FRONT") = {}
             THEN <<"Government ID (Front)">> ELSE <<>>)
       \o (IF /\ Staged(d.uploadedFiles, "ID_FRONT") = {}
              /\ Staged(d.uploadedFiles, "ID_BACK") = {}
             THEN <<", ">> ELSE <<>>)
       \o (IF Staged(d.uploadedFiles, "ID_BACK") = {}
             THEN <<"Government ID (Back)">> ELSE <<>>)]

\* an upload starts only with both required types staged, and a run of
\* handleSubmit with a required type missing starts none and sets the
\* message that lists the missing labels
C21_Blocked ==
  /\ (DocsOpen /\ docs'.uploads > docs.uploads) => ~C21_Missing(docs)
  /\ (SubmitPressed /\ C21_Missing(docs)) =>
       /\ docs'.message = C21_Message(docs)
       /\ docs'.uploads = docs.uploads
       /\ docs'.uploading = docs.uploading
       /\ docs'.uploadedFiles = docs.uploadedFiles

DashOpen == dash # Unmounted

\* C22: after a 404 the dashboard has called for the registration page,
\* gets there, and never renders the dashboard content; whenever the fetch
\* has been issued the loading state ends, however the fetch ends.
C22_NotFoundRedirects ==
  /\ []((DashOpen /\ dash.fetched = "404") =>
          /\ dash.pushed = "/seller/register"
          /\ dash.sellerProfile = Null
          /\ DashView(dash) # "Seller Dashboard")
  /\ (DashOpen /\ dash.fetched = "404")
       ~> (DashOpen /\ dash.route = "/seller/register")
  /\ (DashOpen /\ dash.pending # 0) ~> (DashOpen /\ ~dash.loading)
  /\ [](DashOpen /\ dash.fetched # "" => ~dash.loading)

\* the fetch got 404, loading has ended and the browser is on the
\* registration page
C22_Witness ==
  /\ DashOpen
  /\ dash.fetched = "404"
  /\ ~dash.loading
  /\ dash.route = "/seller/register"
  /\ \E i \in Gets : Done(i) /\ Status(i) = 404 /\ reqs[i].sid = FormUser


\* C23: every stored profile has termsAccepted = true and an acceptance
\* timestamp; none has a timestamp without accepted terms or accepted terms
\* without a timestamp.
C23_TermsAcceptedWithTimestamp ==
  \A row \in profiles :
    /\ row.termsAccepted = [t |-> "boolean", b |-> TRUE]
    /\ row.termsAcceptedAt # Null
    /\ row.termsAcceptedAt.t = "date"
    /\ (row.termsAcceptedAt = Null) <=> (row.termsAccepted # [t |-> "boolean", b |-> TRUE])

\* a profile was created, and a registration with termsAccepted = false was
\* answered 400
C23_Witness ==
  /\ \E row \in profiles : row.termsAcceptedAt # Null
  /\ \E i \in Posts :
       /\ Done(i) /\ Status(i) = 400
       /\ reqs[i].body.t = "object"
       /\ reqs[i].body.o.termsAccepted = [t |-> "boolean", b |-> FALSE]


\* the optional keys of a payload that the profile stores
C24_Optional ==
  {"description", "website", "businessEmail", "addressLine2", "gstVatNumber",
   "yearsInBusiness", "facebookUrl", "instagramUrl", "linkedinUrl",
   "twitterUrl", "bankBranchAddress"}

\* C24: the profile of a successful registration stores an optional field
\* as null exactly when the payload left it out or gave the empty string,
\* and stores every other supplied value as supplied, yearsInBusiness 0
\* as 0.
C24_OptionalStoredAsSupplied ==
  \A i \in Posts :
    Status(i) = 201 =>
      \A row \in profiles :
        row.id = reqs[i].resp.body.seller.id =>
          \A k \in C24_Optional :
            LET v == reqs[i].body.o[k]
            IN  IF v = [t |-> "undefined"] \/ v = [t |-> "string", s |-> <<>>]
                  THEN row[k] = [t |-> "null"]
                  ELSE row[k] = v


\* C25: the registration page opens on step 1 and its step stays within
\* 1..5; the step changes by one at a time, upwards only from below 5 and
\* downwards only from above 1, whatever the fields hold; a request is
\* issued only from step 5.
C25_StepWithinOneToFive ==
  /\ [](FormOpen => form.currentStep \in 1..5)
  /\ [][/\ (~FormOpen /\ form' # form) => form'.currentStep = 1
        /\ (FormOpen /\ form'.currentStep # form.currentStep) =>
             \/ form'.currentStep = form.currentStep + 1 /\ form.currentStep < 5
             \/ form'.currentStep = form.currentStep - 1 /\ form.currentStep > 1
        /\ Len(reqs') > Len(reqs) => form.currentStep = 5]_vars

\* step 5 was reached with nothing typed, a request was issued there, and
\* the user went back to step 4 afterwards
C25_Witness ==
  /\ FormOpen
  /\ form.currentStep = 4
  /\ form.values = EmptyForm
  /\ Len(reqs) = 1
  /\ reqs[1].body = [t |-> "object", o |-> EmptyForm]


\* C26: once a submission got a 2xx response the page stays in the success
\* state, its step, its fields and its requests stay as they are, and the
\* browser gets to the seller dashboard.
C26_SucceededIsTerminal ==
  /\ [][(FormOpen /\ form.success) =>
          /\ form'.success
          /\ form'.currentStep = form.currentStep
          /\ form'.values = form.values
          /\ Len(reqs') = Len(reqs)]_vars
  /\ (FormOpen /\ form.success)
       ~> (FormOpen /\ form.success /\ form.route = "/seller/dashboard")

\* the page succeeded with a press of Submit still left to the user, and
\* the browser is on the dashboard
C26_Witness ==
  /\ FormOpen
  /\ form.success
  /\ quota > 0
  /\ form.route = "/seller/dashboard"
  /\ \E i \in Posts : Done(i) /\ Status(i) = 201

\* the step settles the fetch of request i
C30_Settles(i) == FormOpen /\ i \in form.pending /\ i \notin form'.pending

\* C30: every submission leaves the submitting state: to success on a 2xx
\* response, otherwise to a failure with an error message that is not
\* empty; isLoading is false afterwards; a new submission clears the error
\* of the one before.
C30_SubmittingEnds ==
  /\ (FormOpen /\ form.isLoading) ~> (FormOpen /\ ~form.isLoading)
  /\ [](FormOpen => (form.isLoading <=> form.pending # {}))
  /\ [][/\ \A i \in 1..Len(reqs) :
             C30_Settles(i) =>
               /\ ~form'.isLoading
               /\ \/ /\ form'.success
                     /\ Done(i) /\ Status(i) \in 200..299
                  \/ /\ ~form'.success
                     /\ form'.error = "An error occurred. Please try again."
                  \/ /\ ~form'.success
                     /\ Done(i) /\ Status(i) \notin 200..299
                     /\ form'.error # ""
                     /\ form'.error = reqs[i].resp.body.message
        /\ Len(reqs') > Len(reqs) =>
             /\ form'.error = ""
             /\ form'.isLoading
             /\ ~form.isLoading]_vars

\* the first submission failed with the server's message, and the second
\* one is in flight with the error cleared
C30_Witness ==
  /\ FormOpen
  /\ Len(reqs) = 2
  /\ Done(1) /\ Status(1) = 400
  /\ form.pending = {2}
  /\ form.isLoading
  /\ form.error = ""


\* a registration of identity u created the profile and its role update threw
C27_Broken(u) == \E i \in Posts : reqs[i].sid = u /\ reqs[i].threw = "update"

\* C27: once a registration created the profile and its role update failed,
\* the identity keeps its profile and never gets the role SELLER: no other
\* registration of the identity attempts the role update, and each one that
\* gets through the existing-profile check is answered 409.
C27_InconsistentStatePersists ==
  /\ [](\A u \in Users :
          C27_Broken(u) =>
            /\ role[u] # "SELLER"
            /\ RowsOf(profiles, u) # {}
            /\ \A j \in Posts :
                 (reqs[j].sid = u /\ reqs[j].threw # "update") =>
                   /\ reqs[j].pc # "update"
                   /\ ~HasCalled(j, "update"))
  /\ [][\A j \in Posts :
          ( /\ C27_Broken(reqs[j].sid)
            /\ reqs[j].pc = "findUnique"
            /\ reqs'[j].pc # "findUnique"
            /\ reqs'[j].threw = "" )
          => /\ reqs'[j].pc = "done"
             /\ reqs'[j].resp.status = 409
             /\ role' = role]_vars

\* the role update of a registration threw, and a registration of the same
\* identity that arrived later was answered 409
C27_Witness ==
  \E i, j \in Posts :
    /\ i < j /\ reqs[i].sid = reqs[j].sid
    /\ reqs[i].threw = "update"
    /\ Done(j) /\ Status(j) = 409
    /\ role[reqs[i].sid] # "SELLER"


\* a payload that parses and fails the schema: terms not accepted
C28_Invalid(body) ==
  body.t = "object" /\ body.o.termsAccepted = [t |-> "boolean", b |-> FALSE]

\* C28: the registration endpoint checks the session first, the payload
\* second and the existing profile third: a request without a session gets
\* 401 whatever its payload, and an invalid payload of an authenticated
\* identity gets 400 before the store is asked, also when the identity has
\* a profile.
C28_ChecksInOrder ==
  \A i \in Posts :
    Done(i) =>
      /\ reqs[i].sid = "none" =>
           (Status(i) = 401 /\ reqs[i].calls = <<>> /\ reqs[i].threw = "")
      /\ (reqs[i].sid # "none" /\ C28_Invalid(reqs[i].body)) =>
           (Status(i) = 400 /\ reqs[i].calls = <<>>)
      /\ Status(i) = 409 =>
           (reqs[i].sid # "none" /\ ~C28_Invalid(reqs[i].body))

\* an identity has a profile and its later registration with an invalid
\* payload was answered 400
C28_Witness ==
  \E i, j \in Posts :
    /\ i < j /\ reqs[i].sid = reqs[j].sid
    /\ Status(i) = 201
    /\ RowsOf(profiles, reqs[j].sid) # {}
    /\ C28_Invalid(reqs[j].body)
    /\ Done(j) /\ Status(j) = 400


\* C29: a payload that the client's schema accepts is accepted by the
\* server's schema: no submission of values that pass the client's schema is
\* answered 400.
C29_ClientValidImpliesServerValid ==
  \A i \in Posts :
    (reqs[i].body.t = "object" /\ ClientValid(reqs[i].body.o)) =>
      /\ SafeParse(reqs[i].body).success
      /\ Done(i) => Status(i) # 400

====
